---- MODULE Spec2Model ----
(***************************************************************************)
(* A model of binary_anodi.py: pattern encoding (bin2dec), multipoint      *)
(* histograms, the Jensen-Shannon divergence (jsd), the dissimilarity      *)
(* matrix (jsdm) and the ANODI scores (anodi).                             *)
(*                                                                         *)
(* Every function of the module is pure, so the state machine is a caller  *)
(* that picks one function and its arguments and records what the call     *)
(* produced: a returned value or a raised exception.                       *)
(*                                                                         *)
(* Numbers.  Histogram counts are integers.  The floating point values of  *)
(* jsd are modelled as exact reals: a probability is a rational, and a     *)
(* value built from logarithms of rationals is a rational combination of   *)
(* logarithms of primes, (1/den) * SUM e[p] * ln p, which is unique in     *)
(* lowest terms because the logarithms of the primes are linearly          *)
(* independent over the rationals.  A division 0/0 gives nan, as numpy     *)
(* does.  Rounding of the float arithmetic is not modelled.                *)
(***************************************************************************)
EXTENDS Integers, Sequences, FiniteSets, TLC

VARIABLES call, args, ret

vars == <<call, args, ret>>

(***************************************************************************)
(* Bounds of the model.                                                    *)
(***************************************************************************)
\* largest image height and width
MaxSide == 2
\* largest number of histogram bins of a histogram handed to jsd directly
MaxBins == 2
\* largest count in one bin of a histogram handed to jsd directly
MaxCount == 3
\* largest number of candidate images (anodi) or of histograms (jsdm)
MaxCands == 3

(***************************************************************************)
(* Results of a call: a returned value or a raised exception.              *)
(***************************************************************************)
Ok(v) == [kind |-> "ok", val |-> v, err |-> "none"]

Raise(e) == [kind |-> "error", val |-> <<>>, err |-> e]

(***************************************************************************)
(* Integer helpers.                                                        *)
(***************************************************************************)
RECURSIVE Pow2(_)
\* 1 << n
Pow2(n) == IF n <= 0 THEN 1 ELSE 2 * Pow2(n - 1)

RECURSIVE SumRange(_, _, _)
\* s[lo] + ... + s[hi] for a sequence of integers, summed pairwise
SumRange(s, lo, hi) ==
    IF lo > hi THEN 0
    ELSE IF lo = hi THEN s[lo]
    ELSE LET mid == (lo + hi) \div 2
         IN  SumRange(s, lo, mid) + SumRange(s, mid + 1, hi)

\* np.sum of a one-dimensional integer array
npsum(s) == SumRange(s, 1, Len(s))

Max(a, b) == IF a >= b THEN a ELSE b

\* an array held element by element: every entry is computed once, when the
\* array is built
array(f) == f \o <<>>

Min(a, b) == IF a <= b THEN a ELSE b

(***************************************************************************)
(* Images: an image is a sequence of rows of 0/1 pixels.                   *)
(***************************************************************************)
Bits == {0, 1}

Images == UNION { [1..h -> [1..w -> Bits]] : h \in 1..MaxSide, w \in 1..MaxSide }

Height(img) == Len(img)

Width(img) == Len(img[1])

(***************************************************************************)
(* bin2dec                                                                 *)
(***************************************************************************)
\* 1 << np.arange(n - 1, -1, -1): the weights n-1, n-2, ..., 0 as powers of 2
weights(n) == [i \in 1..n |-> Pow2(n - i)]

\* 1 << np.arange(n, 0, -1): the weights shifted by one bit
weightsShifted(n) == [i \in 1..n |-> Pow2(n - i + 1)]

\* x.dot(w) for two one-dimensional arrays
dot(x, w) == npsum([i \in 1..Len(x) |-> x[i] * w[i]])

\* bin2dec with every weight one bit too high
bin2decShifted(x) == dot(x, weightsShifted(Len(x)))

\* bin2dec of one row
bin2dec(x) == dot(x, weights(Len(x)))

\* bin2dec of a 2D array: each row converted on its own
bin2decRows(xs) == array([n \in 1..Len(xs) |-> bin2dec(xs[n])])

(***************************************************************************)
(* multipoint_histogram                                                    *)
(***************************************************************************)
\* extract_patches_2d that clips instead of rejecting a patch larger than
\* the image: no window fits, so it yields no patch
extract_patches_2d_unchecked(image, p) ==
    LET i_h == Height(image)
        i_w == Width(image)
        n_h == Max(i_h - p + 1, 0)
        n_w == Max(i_w - p + 1, 0)
    IN  IF p <= 0 THEN Raise("ValueError")
        ELSE Ok(array([n \in 1..(n_h * n_w) |->
                   [r \in 1..p |-> [c \in 1..p |->
                       image[((n - 1) \div n_w) + r][((n - 1) % n_w) + c]]]]))

\* sklearn's extract_patches_2d(image, (p, p)) with max_patches=None: every
\* p x p window at stride 1, top-left positions in row-major order.  A patch
\* higher or wider than the image is rejected with ValueError; a patch size
\* of 0 or less fails with ValueError when the strided view is built or
\* reshaped.
extract_patches_2d(image, p) ==
    LET i_h == Height(image)
        i_w == Width(image)
        n_h == i_h - p + 1
        n_w == i_w - p + 1
    IN  IF p > i_h \/ p > i_w THEN Raise("ValueError")
        ELSE IF p <= 0 THEN Raise("ValueError")
        ELSE Ok(array([n \in 1..(n_h * n_w) |->
                   [r \in 1..p |-> [c \in 1..p |->
                       image[((n - 1) \div n_w) + r][((n - 1) % n_w) + c]]]]))

\* patches.reshape(patches.shape[0], -1): each patch flattened row-major
reshape(patches) ==
    array([n \in 1..Len(patches) |->
        LET p == Len(patches[n])
        IN  array([j \in 1..(p * p) |->
                      patches[n][((j - 1) \div p) + 1][((j - 1) % p) + 1]])])

\* largest entry of a sequence of non-negative integers, -1 when it is empty
amax(ids) == IF Len(ids) = 0 THEN -1
             ELSE CHOOSE m \in {ids[n] : n \in 1..Len(ids)} :
                     \A n \in 1..Len(ids) : ids[n] <= m

\* np.bincount without minlength: the result stops at the largest id seen
bincountShort(ids, minlength) ==
    array([b \in 1..(amax(ids) + 1) |->
              Cardinality({n \in 1..Len(ids) : ids[n] = b - 1})])

\* np.bincount(ids, minlength): entry id (kept at index id + 1) counts the
\* occurrences of id; the length is max(minlength, largest id + 1)
bincount(ids, minlength) ==
    array([b \in 1..Max(minlength, amax(ids) + 1) |->
              Cardinality({n \in 1..Len(ids) : ids[n] = b - 1})])

multipoint_histogram(img, patch_size) ==
    LET extracted == extract_patches_2d(img, patch_size)
    IN  IF extracted.kind = "error" THEN extracted
        ELSE LET patches == bin2decRows(reshape(extracted.val))
             IN  Ok(bincount(patches, Pow2(patch_size * patch_size)))

(***************************************************************************)
(* Floats as exact rationals n/d in lowest terms, or nan.                  *)
(***************************************************************************)
Abs(x) == IF x < 0 THEN -x ELSE x

RECURSIVE GCD(_, _)
GCD(a, b) == IF b = 0 THEN a ELSE GCD(b, a % b)

NaN == [nan |-> TRUE, n |-> 0, d |-> 1]

\* the rational n/d, d > 0, in lowest terms
Frac(n, d) == LET g == GCD(Abs(n), d)
              IN  [nan |-> FALSE, n |-> n \div g, d |-> d \div g]

\* x / y in float arithmetic: 0/0 is nan, and nan propagates.  (x/0 for
\* x # 0 would be inf; counts are non-negative, so no call produces it.)
fdiv(x, y) == CASE x.nan \/ y.nan -> NaN
                [] ~x.nan /\ ~y.nan /\ y.n = 0 /\ x.n = 0 -> NaN
                [] ~x.nan /\ ~y.nan /\ y.n > 0 -> Frac(x.n * y.d, x.d * y.n)

\* x + y
fadd(x, y) == IF x.nan \/ y.nan THEN NaN
              ELSE IF x.n = 0 THEN y
              ELSE IF y.n = 0 THEN x
              ELSE Frac(x.n * y.d + y.n * x.d, x.d * y.d)

\* 0.5 * x
fhalf(x) == IF x.nan THEN NaN ELSE Frac(x.n, 2 * x.d)

RECURSIVE fsumRange(_, _, _)
fsumRange(s, lo, hi) ==
    IF lo > hi THEN Frac(0, 1)
    ELSE IF lo = hi THEN s[lo]
    ELSE LET mid == (lo + hi) \div 2
         IN  fadd(fsumRange(s, lo, mid), fsumRange(s, mid + 1, hi))

\* np.sum of an array of floats
fsum(s) == fsumRange(s, 1, Len(s))

\* a.astype(np.float) / np.sum(a) for an array of integer counts
normalize(a) ==
    LET total == Frac(npsum(a), 1)
    IN  array([i \in 1..Len(a) |-> fdiv(Frac(a[i], 1), total)])

(***************************************************************************)
(* Values built from logarithms: (1/den) * SUM e[p] * ln p over primes p,  *)
(* in lowest terms (den > 0, no zero exponent, gcd of den and the          *)
(* exponents 1), or nan.                                                   *)
(***************************************************************************)
NoExp == [p \in {} |-> 0]

LNaN == [nan |-> TRUE, den |-> 1, e |-> NoExp]

LZero == [nan |-> FALSE, den |-> 1, e |-> NoExp]

Get(e, p) == IF p \in DOMAIN e THEN e[p] ELSE 0

RECURSIVE GCDSet(_)
GCDSet(S) == IF S = {} THEN 0
             ELSE LET x == CHOOSE y \in S : TRUE IN GCD(x, GCDSet(S \ {x}))

LNorm(den, e) ==
    LET nz == {p \in DOMAIN e : e[p] # 0}
        g  == GCDSet({den} \cup {Abs(e[p]) : p \in nz})
    IN  [nan |-> FALSE, den |-> den \div g, e |-> [p \in nz |-> e[p] \div g]]

\* v + w
ladd(v, w) ==
    IF v.nan \/ w.nan THEN LNaN
    ELSE IF DOMAIN v.e = {} THEN w
    ELSE IF DOMAIN w.e = {} THEN v
    ELSE LET L == (v.den * w.den) \div GCD(v.den, w.den)
         IN  LNorm(L, [p \in (DOMAIN v.e) \cup (DOMAIN w.e) |->
                          Get(v.e, p) * (L \div v.den) + Get(w.e, p) * (L \div w.den)])

\* x * v for a rational x
lscale(x, v) ==
    IF v.nan \/ x.nan THEN LNaN
    ELSE LNorm(v.den * x.d, [p \in DOMAIN v.e |-> v.e[p] * x.n])

RECURSIVE lsumRange(_, _, _)
lsumRange(s, lo, hi) ==
    IF lo > hi THEN LZero
    ELSE IF lo = hi THEN s[lo]
    ELSE LET mid == (lo + hi) \div 2
         IN  ladd(lsumRange(s, lo, mid), lsumRange(s, mid + 1, hi))

\* np.sum of an array of such values
lsum(s) == lsumRange(s, 1, Len(s))

RECURSIVE Val(_, _)
\* the exponent of the prime p in n >= 1
Val(p, n) == IF n % p = 0 THEN 1 + Val(p, n \div p) ELSE 0

PrimeDivisors(n) == {p \in 2..n : n % p = 0 /\ \A d \in 2..(p - 1) : p % d # 0}

\* np.log(x) for a rational x > 0
log(x) ==
    LNorm(1, [p \in PrimeDivisors(x.n) \cup PrimeDivisors(x.d) |->
                 Val(p, x.n) - Val(p, x.d)])

(***************************************************************************)
(* jsd                                                                     *)
(***************************************************************************)
\* scipy.special.rel_entr(x, y): x * log(x / y) for x > 0, y > 0; 0 for
\* x = 0, y >= 0.  (It is inf otherwise; m >= p/2 keeps jsd away from it.)
rel_entr(x, y) ==
    CASE x.nan \/ y.nan -> LNaN
      [] ~x.nan /\ ~y.nan /\ x.n > 0 /\ y.n > 0 -> lscale(x, log(fdiv(x, y)))
      [] ~x.nan /\ ~y.nan /\ x.n = 0 /\ y.n >= 0 -> LZero

\* scipy.stats.entropy(pk, qk): both arguments are normalized to sum to 1,
\* then S = sum(rel_entr(pk, qk))
entropy(pk, qk) ==
    LET psum == fsum(pk)
        qsum == fsum(qk)
        pn   == array([i \in 1..Len(pk) |-> fdiv(pk[i], psum)])
        qn   == array([i \in 1..Len(qk) |-> fdiv(qk[i], qsum)])
    IN  lsum(array([i \in 1..Len(pk) |-> rel_entr(pn[i], qn[i])]))

\* jsd with the second term dropped: 0.5 * entropy(p, m) + 0.5 * entropy(p, m)
jsdOneSided(p, q) ==
    LET pf == normalize(p)
        qf == normalize(q)
        m  == array([i \in 1..Len(pf) |-> fhalf(fadd(pf[i], qf[i]))])
    IN  lscale(Frac(1, 2), ladd(entropy(pf, m), entropy(pf, m)))

\* jsd with a sign slipped between the two terms
jsdDifference(p, q) ==
    LET pf == normalize(p)
        qf == normalize(q)
        m  == array([i \in 1..Len(pf) |-> fhalf(fadd(pf[i], qf[i]))])
    IN  lscale(Frac(1, 2), ladd(entropy(pf, m), lscale(Frac(-1, 1), entropy(qf, m))))

\* Jensen-Shannon divergence of two histograms of equal length
jsd(p, q) ==
    LET pf == normalize(p)
        qf == normalize(q)
        m  == array([i \in 1..Len(pf) |-> fhalf(fadd(pf[i], qf[i]))])
    IN  lscale(Frac(1, 2), ladd(entropy(pf, m), entropy(qf, m)))

(***************************************************************************)
(* jsdm                                                                    *)
(***************************************************************************)
\* position in the condensed distance vector of the pair i < j of n rows
condensed(n, i, j) == (i - 1) * n - ((i - 1) * i) \div 2 + (j - i)

\* the pair i < j kept at position k of the condensed vector
pairAt(n, k) == CHOOSE ij \in (1..n) \X (1..n) :
                    ij[1] < ij[2] /\ condensed(n, ij[1], ij[2]) = k

\* scipy's pdist(X, metric=jsd): X must be 2-dimensional (an empty list is
\* not: ValueError); the result holds jsd(X[i], X[j]) once for every pair
\* i < j, in the order (1,2), (1,3), ..., (n-1,n)
pdist(X) ==
    LET n == Len(X)
    IN  IF n = 0 THEN Raise("ValueError")
        ELSE Ok(array([k \in 1..((n * (n - 1)) \div 2) |->
                    LET ij == pairAt(n, k) IN jsd(X[ij[1]], X[ij[2]])]))

\* squareform that fills the upper triangle only
squareformUpper(y) ==
    IF Len(y) = 0 THEN <<<<LZero>>>>
    ELSE LET d == CHOOSE n \in 1..(Len(y) + 1) : n * (n - 1) = 2 * Len(y)
         IN  [i \in 1..d |-> [j \in 1..d |->
                 IF i < j THEN y[condensed(d, i, j)] ELSE LZero]]

\* scipy's squareform(y) of a condensed vector: the d x d matrix with a zero
\* diagonal and y mirrored into both triangles; the empty vector gives the
\* 1 x 1 zero matrix
squareform(y) ==
    IF Len(y) = 0 THEN <<<<LZero>>>>
    ELSE LET d == CHOOSE n \in 1..(Len(y) + 1) : n * (n - 1) = 2 * Len(y)
         IN  [i \in 1..d |-> [j \in 1..d |->
                 IF i = j THEN LZero
                 ELSE y[condensed(d, Min(i, j), Max(i, j))]]]

\* Jensen-Shannon dissimilarity matrix of a list of histograms
jsdm(ps) ==
    LET y == pdist(ps)
    IN  IF y.kind = "error" THEN y ELSE Ok(squareform(y.val))

(***************************************************************************)
(* anodi                                                                   *)
(***************************************************************************)
\* np.mean of a one-dimensional array: nan (with a warning, not an
\* exception) for the empty array
mean(vs) == IF Len(vs) = 0 THEN LNaN ELSE lscale(Frac(1, Len(vs)), lsum(vs))

\* anodi whose inconsistency skips the first candidate
anodiSkipFirst(img0, imgs, patch_size) ==
    LET hist0 == multipoint_histogram(img0, patch_size)
        hs    == array([n \in 1..Len(imgs) |->
                           multipoint_histogram(imgs[n], patch_size)])
        bad   == {n \in 1..Len(imgs) : hs[n].kind = "error"}
        hists == array([n \in 1..Len(imgs) |-> hs[n].val])
        d     == pdist(hists)
    IN  IF hist0.kind = "error" THEN hist0
        ELSE IF bad # {} THEN hs[CHOOSE n \in bad : \A k \in bad : n <= k]
        ELSE IF d.kind = "error" THEN d
        ELSE Ok(<<mean(array([n \in 1..(Len(hists) - 1) |-> jsd(hist0.val, hists[n + 1])])),
                  mean(d.val)>>)

\* anodi(img0, imgs, patch_size): the first failing histogram call raises;
\* otherwise (inconsistency, diversity)
anodi(img0, imgs, patch_size) ==
    LET hist0 == multipoint_histogram(img0, patch_size)
        hs    == array([n \in 1..Len(imgs) |->
                           multipoint_histogram(imgs[n], patch_size)])
        bad   == {n \in 1..Len(imgs) : hs[n].kind = "error"}
        hists == array([n \in 1..Len(imgs) |-> hs[n].val])
        d     == pdist(hists)
    IN  IF hist0.kind = "error" THEN hist0
        ELSE IF bad # {} THEN hs[CHOOSE n \in bad : \A k \in bad : n <= k]
        ELSE IF d.kind = "error" THEN d
        ELSE Ok(<<mean(array([n \in 1..Len(hists) |-> jsd(hist0.val, hists[n])])),
                  mean(d.val)>>)

(***************************************************************************)
(* The caller: one call of one function, with arguments from bounded sets. *)
(***************************************************************************)
\* bit rows of the length of a flattened k x k patch
BitRows(k) == [1..(k * k) -> Bits]

\* histograms handed to jsd directly
Histograms(n) == [1..n -> 0..MaxCount]

\* histograms handed to jsdm directly: two bins, counts up to 2
SmallHistograms == [1..2 -> 0..2]

\* the square image of side s with only its top-left pixel set to b
Corner(s, b) == [r \in 1..s |-> [c \in 1..s |-> IF r = 1 /\ c = 1 THEN b ELSE 0]]

\* images handed to anodi: the blank squares and the squares with one pixel
\* set, of the two largest sides
AnodiImages == {Corner(s, b) : s \in (MaxSide - 1)..MaxSide, b \in Bits}

PatchSizes == (-1)..(MaxSide + 1)

Pending == [kind |-> "pending", val |-> <<>>, err |-> "none"]

\* the call about to be made: a function of the module and its arguments
Init ==
    /\ ret = Pending
    /\ \/ /\ call = "bin2dec"
          /\ \E k \in 1..MaxSide : \E x \in BitRows(k) : args = [x |-> x]
       \/ /\ call = "multipoint_histogram"
          /\ \E img \in Images : \E patch_size \in PatchSizes :
                args = [img |-> img, patch_size |-> patch_size]
       \/ /\ call = "jsd"
          /\ \E n \in 1..MaxBins : \E p \in Histograms(n) : \E q \in Histograms(n) :
                args = [p |-> p, q |-> q]
       \/ /\ call = "jsdm"
          /\ \E n \in 0..MaxCands : \E ps \in [1..n -> SmallHistograms] :
                args = [ps |-> ps]
       \/ /\ call = "anodi"
          /\ \E img0 \in AnodiImages : \E n \in 0..MaxCands :
             \E imgs \in [1..n -> AnodiImages] : \E patch_size \in 1..MaxSide :
                args = [img0 |-> img0, imgs |-> imgs, patch_size |-> patch_size]

CallBin2dec ==
    /\ call = "bin2dec"
    /\ ret = Pending
    /\ ret' = Ok(bin2dec(args.x))
    /\ UNCHANGED <<call, args>>

CallMultipointHistogram ==
    /\ call = "multipoint_histogram"
    /\ ret = Pending
    /\ ret' = multipoint_histogram(args.img, args.patch_size)
    /\ UNCHANGED <<call, args>>

CallJsd ==
    /\ call = "jsd"
    /\ ret = Pending
    /\ ret' = Ok(jsd(args.p, args.q))
    /\ UNCHANGED <<call, args>>

CallJsdm ==
    /\ call = "jsdm"
    /\ ret = Pending
    /\ ret' = jsdm(args.ps)
    /\ UNCHANGED <<call, args>>

CallAnodi ==
    /\ call = "anodi"
    /\ ret = Pending
    /\ ret' = anodi(args.img0, args.imgs, args.patch_size)
    /\ UNCHANGED <<call, args>>

Next ==
    \/ CallBin2dec
    \/ CallMultipointHistogram
    \/ CallJsd
    \/ CallJsdm
    \/ CallAnodi

Spec == Init /\ [][Next]_vars

(***************************************************************************)
(* Properties.                                                             *)
(***************************************************************************)
Returned == ret.kind = "ok"

Raised == ret.kind = "error"

Finished == ret.kind # "pending"

\* the patch size is positive and fits the image both ways
PatchFits(img, k) == k >= 1 /\ k <= Height(img) /\ k <= Width(img)

RECURSIVE LSumSet(_, _)
\* the sum of f[x] over the elements x of the finite set S
LSumSet(S, f) ==
    IF S = {} THEN LZero
    ELSE LET x == CHOOSE y \in S : TRUE IN ladd(f[x], LSumSet(S \ {x}, f))

\* the arithmetic mean of f[x] over the elements x of the non-empty set S
MeanOver(S, f) == lscale(Frac(1, Cardinality(S)), LSumSet(S, f))

\* C1: with at least 2 candidates and a patch size that fits every image,
\* anodi returns (inconsistency, diversity): inconsistency is the mean over
\* the candidates c of jsd(hist(reference), hist(c)), and diversity is the
\* mean of jsd(hist(c_i), hist(c_j)) over the unordered pairs of distinct
\* candidates, each pair counted once.
C1_AnodiScores ==
    (/\ call = "anodi"
     /\ Finished
     /\ Len(args.imgs) >= 2
     /\ PatchFits(args.img0, args.patch_size)
     /\ \A i \in 1..Len(args.imgs) : PatchFits(args.imgs[i], args.patch_size))
    => LET n     == Len(args.imgs)
           h0    == multipoint_histogram(args.img0, args.patch_size).val
           h     == [i \in 1..n |->
                        multipoint_histogram(args.imgs[i], args.patch_size).val]
           pairs == {ij \in (1..n) \X (1..n) : ij[1] < ij[2]}
           toRef == [i \in 1..n |-> jsd(h0, h[i])]
           among == [ij \in pairs |-> jsd(h[ij[1]], h[ij[2]])]
       IN  /\ Returned
           /\ ret.val[1] = MeanOver(1..n, toRef)
           /\ ret.val[2] = MeanOver(pairs, among)

\* three candidates scored, with two different non-zero scores
C1_Witness ==
    /\ call = "anodi"
    /\ Returned
    /\ Len(args.imgs) = 3
    /\ ~ret.val[1].nan /\ ret.val[1] # LZero
    /\ ~ret.val[2].nan /\ ret.val[2] # LZero
    /\ ret.val[1] # ret.val[2]

\* the k x k window with top-left corner (r, c), counted from 0, read
\* row-major as a big-endian binary number
WindowId(img, r, c, k) ==
    npsum([j \in 1..(k * k) |->
              img[r + 1 + ((j - 1) \div k)][c + 1 + ((j - 1) % k)] * Pow2(k * k - j)])

\* C2: for an H x W image and 1 <= k <= min(H, W), multipoint_histogram
\* returns an array of length 2^(k*k) whose entry id is the number of
\* top-left positions whose window reads id; ids that never occur count 0,
\* and the entries add up to (H-k+1)*(W-k+1).
C2_HistogramCounts ==
    (/\ call = "multipoint_histogram"
     /\ Finished
     /\ PatchFits(args.img, args.patch_size))
    => LET k == args.patch_size
           H == Height(args.img)
           W == Width(args.img)
       IN  /\ Returned
           /\ Len(ret.val) = Pow2(k * k)
           /\ \A id \in 0..(Pow2(k * k) - 1) :
                 ret.val[id + 1] =
                     Cardinality({rc \in (0..(H - k)) \X (0..(W - k)) :
                                     WindowId(args.img, rc[1], rc[2], k) = id})
           /\ npsum(ret.val) = (H - k + 1) * (W - k + 1)

\* a histogram with a repeated pattern and with trailing zeros
C2_Witness ==
    /\ call = "multipoint_histogram"
    /\ Returned
    /\ ret.val[Len(ret.val)] = 0
    /\ \E b \in 1..Len(ret.val) : ret.val[b] >= 2

\* the n bits of id, most significant first
ToBits(id, n) == [i \in 1..n |-> (id \div Pow2(n - i)) % 2]

\* C3: bin2dec is a bijection from the bit rows of length k*k onto
\* 0 .. 2^(k*k) - 1: the result of a row is in the range; the row is
\* recovered from its result, so no two rows share a result; and every
\* integer of the range is the result of a row (the range is gone through
\* once for each length, in the call on the all-zero row).
C3_EncodingBijection ==
    (call = "bin2dec" /\ Finished)
    => LET n == Len(args.x)
       IN  /\ ret.val \in 0..(Pow2(n) - 1)
           /\ ToBits(ret.val, n) = args.x
           /\ (\A i \in 1..n : args.x[i] = 0)
                 => \A id \in 0..(Pow2(n) - 1) :
                        \E y \in [1..n -> Bits] : bin2dec(y) = id

\* a row of a 2 x 2 patch or larger, with its first bit set, encoded
C3_Witness ==
    /\ call = "bin2dec"
    /\ Returned
    /\ Len(args.x) >= 4
    /\ args.x[1] = 1
    /\ ret.val >= 8

\* jsdm returned an n x n matrix with a zero diagonal whose other entries
\* are the divergences of the two histograms, in both triangles
MatrixOf(ps, M) ==
    /\ Len(M) = Len(ps)
    /\ \A i \in 1..Len(ps) :
          /\ Len(M[i]) = Len(ps)
          /\ M[i][i] = LZero
          /\ \A j \in 1..Len(ps) :
                i # j => M[i][j] = jsd(ps[i], ps[j]) /\ M[i][j] = M[j][i]

NonDegenerate(p, q) == npsum(p) # 0 /\ npsum(q) # 0

\* p / sum(p) and q / sum(q) are the same distribution
SameDistribution(p, q) ==
    \A i \in 1..Len(p) : p[i] * npsum(q) = q[i] * npsum(p)

\* C5: for two histograms with non-zero sums, jsd is zero if and only if
\* the normalized distributions are the same.
C5_ZeroIffSame ==
    (call = "jsd" /\ Finished /\ NonDegenerate(args.p, args.q))
    => /\ Returned
       /\ (ret.val = LZero) <=> SameDistribution(args.p, args.q)

\* two different histograms of the same distribution, at divergence zero
C5_Witness ==
    /\ call = "jsd"
    /\ Returned
    /\ NonDegenerate(args.p, args.q)
    /\ args.p # args.q
    /\ \E i \in 1..Len(args.p) : args.p[i] # 0 /\ args.p[i] # npsum(args.p)
    /\ ret.val = LZero

\* C6: jsd(p, q) = jsd(q, p) for histograms with non-zero sums.
C6_Symmetric ==
    (call = "jsd" /\ Finished /\ NonDegenerate(args.p, args.q))
    => Returned /\ ret.val = jsd(args.q, args.p)

\* two histograms of different distributions and different sums
C6_Witness ==
    /\ call = "jsd"
    /\ Returned
    /\ NonDegenerate(args.p, args.q)
    /\ npsum(args.p) # npsum(args.q)
    /\ ~SameDistribution(args.p, args.q)
    /\ ret.val # LZero

\* C7 as stated: with fewer than 2 candidates anodi raises an error and
\* returns no pair of scores.
C7_FewCandidatesRaise ==
    (call = "anodi" /\ Finished /\ Len(args.imgs) < 2) => Raised

\* C8: multipoint_histogram raises an error, and returns no histogram, when
\* patch_size exceeds the image's height or width or is not positive.
C8_BadPatchSizeRaises ==
    (/\ call = "multipoint_histogram"
     /\ Finished
     /\ ~PatchFits(args.img, args.patch_size))
    => Raised

\* a positive patch size that fits the height but not the width, rejected
C8_Witness ==
    /\ call = "multipoint_histogram"
    /\ Raised
    /\ args.patch_size >= 1
    /\ args.patch_size <= Height(args.img)
    /\ args.patch_size > Width(args.img)

\* C9 as stated: jsd raises an error, instead of returning a value, when
\* either histogram sums to zero.
C9_DegenerateRaises ==
    (call = "jsd" /\ Finished /\ ~NonDegenerate(args.p, args.q)) => Raised

\* floor(100000 * ln p) for the primes p below 100
LnFloor ==
    2 :> 69314 @@ 3 :> 109861 @@ 5 :> 160943 @@ 7 :> 194591 @@ 11 :> 239789 @@
    13 :> 256494 @@ 17 :> 283321 @@ 19 :> 294443 @@ 23 :> 313549 @@
    29 :> 336729 @@ 31 :> 343398 @@ 37 :> 361091 @@ 41 :> 371357 @@
    43 :> 376120 @@ 47 :> 385014 @@ 53 :> 397029 @@ 59 :> 407753 @@
    61 :> 411087 @@ 67 :> 420469 @@ 71 :> 426267 @@ 73 :> 429045 @@
    79 :> 436944 @@ 83 :> 441884 @@ 89 :> 448863 @@ 97 :> 457471

RECURSIVE LowerSet(_, _)
\* a lower bound of 100000 * SUM e[p] * ln p over the primes p of S
LowerSet(S, e) ==
    IF S = {} THEN 0
    ELSE LET p == CHOOSE q \in S : TRUE
         IN  (IF e[p] > 0 THEN e[p] * LnFloor[p] ELSE e[p] * (LnFloor[p] + 1))
             + LowerSet(S \ {p}, e)

\* v >= 0, decided from the bounds of the logarithms: v is zero, or a lower
\* bound of v is positive
NonNegative(v) == v = LZero \/ LowerSet(DOMAIN v.e, v.e) > 0

\* 0 <= v <= ln 2
InRange(v) ==
    /\ ~v.nan
    /\ NonNegative(v)
    /\ NonNegative(ladd(log(Frac(2, 1)), lscale(Frac(-1, 1), v)))

\* C10 as stated: 0 <= jsd(a, b) <= ln 2 for histograms with non-zero sums,
\* and the two scores returned by anodi lie in [0, ln 2].
C10_Bounded ==
    /\ (call = "jsd" /\ Finished /\ NonDegenerate(args.p, args.q))
       => Returned /\ InRange(ret.val)
    /\ (call = "anodi" /\ Returned)
       => InRange(ret.val[1]) /\ InRange(ret.val[2])

====
